---- MODULE Spec2Model ----
(***************************************************************************)
(* Model of the AI code debugger component of                              *)
(* src/Markus Code/src/components/CodeAnalyzer.tsx (the second `App`,      *)
(* lines 279-532 and its buttons at 706-731).                              *)
(*                                                                         *)
(* Texts are sequences of one-character strings.  JSON values are tagged   *)
(* records, each tag with its own field name, so that values of different  *)
(* JavaScript types are never confused:                                    *)
(*   [t |-> "str", s |-> chars]   [t |-> "num", n |-> Int]                 *)
(*   [t |-> "bool", b |-> BOOLEAN] [t |-> "null"]  [t |-> "undefined"]     *)
(*   [t |-> "arr", a |-> values]  [t |-> "obj", o |-> members in order]    *)
(***************************************************************************)
EXTENDS Integers, Sequences, FiniteSets, TLC

VARIABLES
    code,       \* useState line 330: editor text
    problem,    \* useState line 331: problem description
    apiKey,     \* useState line 332: credential
    model,      \* useState line 333: selected model identifier
    loading,    \* useState line 334
    result,     \* useState line 335: DebugResult or Null
    error,      \* useState line 336: message, "" when none
    inflight,   \* dispatches awaiting their provider call (pending promises)
    trace,      \* the dispatch that finished in the last step, if one did
    sinceClear, \* TRUE when handleClear has run since the last Debug click
    porigin,    \* how the input text of the function-level specification was built
    ptext,      \* input text of the function-level specification
    pstage,     \* how far the pipeline was applied to ptext
    pextract,   \* outcome of extractJsonFromText(ptext)
    pvalid      \* outcome of validateDebugResult on the extracted value

vars == <<code, problem, apiKey, model, loading, result, error, inflight,
          trace, sinceClear, porigin, ptext, pstage, pextract, pvalid>>

compVars == <<code, problem, apiKey, model, loading, result, error, inflight, trace,
              sinceClear>>
pureVars == <<porigin, ptext, pstage, pextract, pvalid>>

(***************************************************************************)
(* Characters                                                              *)
(***************************************************************************)
DQ == "\""
BSL == "\\"
LB == "{"
RB == "}"

\* JSON whitespace: space, line feed, carriage return, tab.
IsWs(c) == c \in {" ", "\n", "\r", "\t"}
IsDigit(c) == c \in {"0", "1", "2", "3", "4", "5", "6", "7", "8", "9"}
DigitVal(c) ==
    CASE c = "0" -> 0 [] c = "1" -> 1 [] c = "2" -> 2 [] c = "3" -> 3
      [] c = "4" -> 4 [] c = "5" -> 5 [] c = "6" -> 6 [] c = "7" -> 7
      [] c = "8" -> 8 [] c = "9" -> 9
DigitChar(n) ==
    CASE n = 0 -> "0" [] n = 1 -> "1" [] n = 2 -> "2" [] n = 3 -> "3"
      [] n = 4 -> "4" [] n = 5 -> "5" [] n = 6 -> "6" [] n = 7 -> "7"
      [] n = 8 -> "8" [] n = 9 -> "9"
\* Control characters may not appear raw inside a JSON string.
IsControl(c) == c \in {"\n", "\r", "\t", "\f", "<BS>"}
\* The two-character escapes of a JSON string, keyed by the second character.
IsSimpleEscape(c) == c \in {DQ, BSL, "/", "b", "f", "n", "r", "t"}
Unescape(c) ==
    CASE c = "b" -> "<BS>" [] c = "f" -> "\f" [] c = "n" -> "\n"
      [] c = "r" -> "\r" [] c = "t" -> "\t" [] OTHER -> c

(***************************************************************************)
(* JSON values                                                             *)
(***************************************************************************)
JStr(s) == [t |-> "str", s |-> s]
JNum(n) == [t |-> "num", n |-> n]
JBool(b) == [t |-> "bool", b |-> b]
JNull == [t |-> "null"]
JArr(a) == [t |-> "arr", a |-> a]
JObj(o) == [t |-> "obj", o |-> o]
Undefined == [t |-> "undefined"]
Member(k, v) == [k |-> k, v |-> v]

\* Assigning a member while parsing: a repeated key keeps its place and takes
\* the later value.
SetMember(o, k, v) ==
    IF \E j \in 1..Len(o) : o[j].k = k
    THEN [j \in 1..Len(o) |-> IF o[j].k = k THEN Member(k, v) ELSE o[j]]
    ELSE Append(o, Member(k, v))

(***************************************************************************)
(* JSON.parse (called at lines 303 and 309), as a recursive-descent parser *)
(* of the JSON grammar.  A parse step yields [ok |-> TRUE, v, i] with the  *)
(* value and the index after it, or [ok |-> FALSE].  The texts of this     *)
(* model hold no '-', '+' or '.', and no digit directly followed by 'e' or *)
(* 'E', so the sign, fraction and exponent productions of a number cannot  *)
(* occur and are left out; every other production is parsed.               *)
(***************************************************************************)
Fail == [ok |-> FALSE]
Ok(v, i) == [ok |-> TRUE, v |-> v, i |-> i]

RECURSIVE SkipWs(_, _)
SkipWs(s, i) == IF i <= Len(s) /\ IsWs(s[i]) THEN SkipWs(s, i + 1) ELSE i

IsHex(c) == IsDigit(c) \/ c \in {"a", "b", "c", "d", "e", "f", "A", "B", "C", "D", "E", "F"}
HexVal(c) ==
    IF IsDigit(c) THEN DigitVal(c)
    ELSE CASE c \in {"a", "A"} -> 10 [] c \in {"b", "B"} -> 11 [] c \in {"c", "C"} -> 12
           [] c \in {"d", "D"} -> 13 [] c \in {"e", "E"} -> 14 [] c \in {"f", "F"} -> 15
\* The character of a \uXXXX escape; code units outside the table share a token.
CharOfCode(n) ==
    CASE n = 34 -> DQ [] n = 92 -> BSL [] n = 123 -> LB [] n = 125 -> RB
      [] n = 32 -> " " [] n = 97 -> "a" [] n = 49 -> "1" [] OTHER -> "<U>"

\* The characters of a string literal; i is the index after the opening quote.
RECURSIVE ParseChars(_, _, _)
ParseChars(s, i, acc) ==
    IF i > Len(s) THEN Fail
    ELSE IF s[i] = DQ THEN Ok(JStr(acc), i + 1)
    ELSE IF s[i] = BSL THEN
        IF i + 1 > Len(s) THEN Fail
        ELSE IF IsSimpleEscape(s[i + 1])
             THEN ParseChars(s, i + 2, Append(acc, Unescape(s[i + 1])))
        ELSE IF s[i + 1] = "u" /\ i + 5 <= Len(s) /\ \A d \in 2..5 : IsHex(s[i + d])
             THEN ParseChars(s, i + 6,
                     Append(acc, CharOfCode(4096 * HexVal(s[i + 2]) + 256 * HexVal(s[i + 3])
                                            + 16 * HexVal(s[i + 4]) + HexVal(s[i + 5]))))
        ELSE Fail
    ELSE IF IsControl(s[i]) THEN Fail
    ELSE ParseChars(s, i + 1, Append(acc, s[i]))

\* The digits of an integer; a leading 0 stands alone.
RECURSIVE ParseDigits(_, _, _)
ParseDigits(s, i, n) ==
    IF i <= Len(s) /\ IsDigit(s[i]) THEN ParseDigits(s, i + 1, 10 * n + DigitVal(s[i]))
    ELSE Ok(JNum(n), i)
ParseNumber(s, i) ==
    IF s[i] = "0" THEN Ok(JNum(0), i + 1) ELSE ParseDigits(s, i, 0)

\* A literal name (true, false, null) at index i.
ParseLiteral(s, i, word, v) ==
    IF i + Len(word) - 1 <= Len(s) /\ SubSeq(s, i, i + Len(word) - 1) = word
    THEN Ok(v, i + Len(word))
    ELSE Fail

RECURSIVE ParseValue(_, _), ParseMembers(_, _, _), ParseElements(_, _, _)

\* The value that starts at the non-blank index i.
ValueAt(s, i) ==
    IF i > Len(s) THEN Fail
    ELSE IF s[i] = LB THEN
        IF SkipWs(s, i + 1) <= Len(s) /\ s[SkipWs(s, i + 1)] = RB
        THEN Ok(JObj(<<>>), SkipWs(s, i + 1) + 1)
        ELSE ParseMembers(s, i + 1, <<>>)
    ELSE IF s[i] = "[" THEN
        IF SkipWs(s, i + 1) <= Len(s) /\ s[SkipWs(s, i + 1)] = "]"
        THEN Ok(JArr(<<>>), SkipWs(s, i + 1) + 1)
        ELSE ParseElements(s, i + 1, <<>>)
    ELSE IF s[i] = DQ THEN ParseChars(s, i + 1, <<>>)
    ELSE IF IsDigit(s[i]) THEN ParseNumber(s, i)
    ELSE IF s[i] = "t" THEN ParseLiteral(s, i, <<"t", "r", "u", "e">>, JBool(TRUE))
    ELSE IF s[i] = "f" THEN ParseLiteral(s, i, <<"f", "a", "l", "s", "e">>, JBool(FALSE))
    ELSE IF s[i] = "n" THEN ParseLiteral(s, i, <<"n", "u", "l", "l">>, JNull)
    ELSE Fail

\* Whitespace after a parsed value.
ThenWs(s, r) == IF r.ok THEN Ok(r.v, SkipWs(s, r.i)) ELSE Fail

\* value: whitespace, then an object, array, string, number or literal name,
\* then whitespace.
ParseValue(s, i0) == ThenWs(s, ValueAt(s, SkipWs(s, i0)))

\* After the value v of the member named k: ',' and more members, or '}'.
AfterMember(s, acc, k, v) ==
    IF ~v.ok \/ v.i > Len(s) THEN Fail
    ELSE IF s[v.i] = "," THEN ParseMembers(s, v.i + 1, SetMember(acc, k, v.v))
    ELSE IF s[v.i] = RB THEN Ok(JObj(SetMember(acc, k, v.v)), v.i + 1)
    ELSE Fail

\* After the name k of a member, at the non-blank index c: ':' and a value.
AfterName(s, acc, k, c) ==
    IF c > Len(s) \/ s[c] # ":" THEN Fail
    ELSE AfterMember(s, acc, k, ParseValue(s, c + 1))

\* The member whose name was parsed as k.
MemberNamed(s, acc, k) ==
    IF ~k.ok THEN Fail ELSE AfterName(s, acc, k.v.s, SkipWs(s, k.i))

\* members of an object: string ':' value, separated by ',', closed by '}'.
ParseMembers(s, i0, acc) ==
    IF SkipWs(s, i0) > Len(s) \/ s[SkipWs(s, i0)] # DQ THEN Fail
    ELSE MemberNamed(s, acc, ParseChars(s, SkipWs(s, i0) + 1, <<>>))

\* After the element v of an array: ',' and more elements, or ']'.
AfterElement(s, acc, v) ==
    IF ~v.ok \/ v.i > Len(s) THEN Fail
    ELSE IF s[v.i] = "," THEN ParseElements(s, v.i + 1, Append(acc, v.v))
    ELSE IF s[v.i] = "]" THEN Ok(JArr(Append(acc, v.v)), v.i + 1)
    ELSE Fail

\* elements of an array: values separated by ',', closed by ']'.
ParseElements(s, i0, acc) == AfterElement(s, acc, ParseValue(s, i0))

\* A parsed value must span the whole text.
WholeText(text, r) ==
    IF r.ok /\ r.i = Len(text) + 1 THEN [ok |-> TRUE, v |-> r.v] ELSE [ok |-> FALSE]

\* JSON.parse(text): one value spanning the whole text, or a SyntaxError.
JsonParse(text) == WholeText(text, ParseValue(text, 1))

(***************************************************************************)
(* JSON.stringify: the compact serialisation, members in insertion order.  *)
(***************************************************************************)
RECURSIVE Concat(_)
Concat(ss) == IF ss = <<>> THEN <<>> ELSE Head(ss) \o Concat(Tail(ss))

RECURSIVE Digits(_)
Digits(n) == IF n < 10 THEN <<DigitChar(n)>> ELSE Append(Digits(n \div 10), DigitChar(n % 10))

EscapeChar(c) ==
    CASE c = DQ -> <<BSL, DQ>> [] c = BSL -> <<BSL, BSL>>
      [] c = "\n" -> <<BSL, "n">> [] c = "\r" -> <<BSL, "r">> [] c = "\t" -> <<BSL, "t">>
      [] c = "\f" -> <<BSL, "f">> [] c = "<BS>" -> <<BSL, "b">> [] OTHER -> <<c>>
Quote(s) == <<DQ>> \o Concat([j \in 1..Len(s) |-> EscapeChar(s[j])]) \o <<DQ>>

RECURSIVE Serialize(_)
Serialize(v) ==
    CASE v.t = "str" -> Quote(v.s)
      [] v.t = "num" -> Digits(v.n)
      [] v.t = "bool" -> IF v.b THEN <<"t", "r", "u", "e">> ELSE <<"f", "a", "l", "s", "e">>
      [] v.t = "null" -> <<"n", "u", "l", "l">>
      [] v.t = "arr" ->
           <<"[">> \o Concat([j \in 1..Len(v.a) |->
                        (IF j > 1 THEN <<",">> ELSE <<>>) \o Serialize(v.a[j])]) \o <<"]">>
      [] v.t = "obj" ->
           <<LB>> \o Concat([j \in 1..Len(v.o) |->
                        (IF j > 1 THEN <<",">> ELSE <<>>) \o Quote(v.o[j].k) \o <<":">>
                        \o Serialize(v.o[j].v)]) \o <<RB>>

(***************************************************************************)
(* Exceptions and returns of the two helper functions.  A thrown value is  *)
(* [isError, message]: `new Error(m)` and the engine's TypeError are Error *)
(* instances.                                                              *)
(***************************************************************************)
ErrorOf(m) == [isError |-> TRUE, message |-> m]
Return(v) == [ok |-> TRUE, v |-> v]
Throw(m) == [ok |-> FALSE, err |-> ErrorOf(m)]

Min(S) == CHOOSE x \in S : \A y \in S : x <= y
Max(S) == CHOOSE x \in S : \A y \in S : x >= y

\* text.match(/\{[\s\S]*\}/) (line 306): the leftmost index at which the
\* pattern can match, and from there the longest match.
MatchStarts(text) ==
    {i \in 1..Len(text) : text[i] = LB /\ \E j \in (i + 1)..Len(text) : text[j] = RB}
\* Mutant of MatchEnd: a lazy quantifier, the shortest match.
MatchEndLazy(text, i) == Min({j \in (i + 1)..Len(text) : text[j] = RB})
MatchEnd(text, i) == Max({j \in (i + 1)..Len(text) : text[j] = RB})
MatchFrom(text, i) == [found |-> TRUE, m |-> SubSeq(text, i, MatchEnd(text, i))]
RegexMatch(text) ==
    IF MatchStarts(text) = {} THEN [found |-> FALSE]
    ELSE MatchFrom(text, Min(MatchStarts(text)))

\* lines 308-312: parse the matched text
ParseMatch(inner) ==
    IF inner.ok THEN Return(inner.v) ELSE Throw("Could not parse JSON from response")

\* lines 306-314: the catch block of the direct parse
FromMatch(jsonMatch) ==
    IF jsonMatch.found THEN ParseMatch(JsonParse(jsonMatch.m))
    ELSE Throw("No JSON found in response")

\* lines 301-304: the direct parse, whole being JSON.parse(text)
DirectOr(text, whole) ==
    IF whole.ok THEN Return(whole.v) ELSE FromMatch(RegexMatch(text))

\* extractJsonFromText (lines 300-316)
extractJsonFromText(text) == DirectOr(text, JsonParse(text))

\* extractJsonFromText(undefined): JSON.parse(undefined) throws, and in the
\* handler (line 306) undefined.match throws a TypeError.
extractJsonFromUndefined ==
    Throw("Cannot read properties of undefined (reading 'match')")

KeyProblem == <<"p", "r", "o", "b", "l", "e", "m">>
KeySolution == <<"s", "o", "l", "u", "t", "i", "o", "n">>
KeyCodeSnippet == <<"c", "o", "d", "e", "S", "n", "i", "p", "p", "e", "t">>

\* result.key for a non-null value: an own member of an object, else undefined.
GetProp(v, k) ==
    IF v.t = "obj" /\ \E j \in 1..Len(v.o) : v.o[j].k = k
    THEN v.o[CHOOSE j \in 1..Len(v.o) : v.o[j].k = k].v
    ELSE Undefined

\* JavaScript truthiness, as `!x` reads it.
Truthy(v) ==
    CASE v.t = "str" -> v.s # <<>>
      [] v.t = "num" -> v.n # 0
      [] v.t = "bool" -> v.b
      [] v.t \in {"null", "undefined"} -> FALSE
      [] v.t \in {"arr", "obj"} -> TRUE

\* Mutant of validateDebugResult: the solution is copied from the problem.
validateDebugResultCopied(r) ==
    IF r.t = "null"
    THEN Throw("Cannot read properties of null (reading 'problem')")
    ELSE IF ~Truthy(GetProp(r, KeyProblem)) \/ ~Truthy(GetProp(r, KeySolution))
            \/ ~Truthy(GetProp(r, KeyCodeSnippet))
    THEN Throw("Invalid response format")
    ELSE Return([problem |-> GetProp(r, KeyProblem),
                 solution |-> GetProp(r, KeyProblem),
                 codeSnippet |-> GetProp(r, KeyCodeSnippet)])

\* validateDebugResult (lines 318-327); reading a property of null throws.
validateDebugResult(r) ==
    IF r.t = "null"
    THEN Throw("Cannot read properties of null (reading 'problem')")
    ELSE IF ~Truthy(GetProp(r, KeyProblem)) \/ ~Truthy(GetProp(r, KeySolution))
            \/ ~Truthy(GetProp(r, KeyCodeSnippet))
    THEN Throw("Invalid response format")
    ELSE Return([problem |-> GetProp(r, KeyProblem),
                 solution |-> GetProp(r, KeySolution),
                 codeSnippet |-> GetProp(r, KeyCodeSnippet)])

(***************************************************************************)
(* Bounded input texts                                                     *)
(***************************************************************************)
MaxLen == 3

ShortAlphabet == {LB, RB, DQ, ":", ",", "a", "1", " ", "[", "]", BSL}

RECURSIVE SeqsUpTo(_, _)
SeqsUpTo(A, n) ==
    IF n = 0 THEN {<<>>}
    ELSE LET prev == SeqsUpTo(A, n - 1) IN
         prev \cup {Append(s, a) : s \in {p \in prev : Len(p) = n - 1}, a \in A}

ShortTexts == SeqsUpTo(ShortAlphabet, MaxLen)

\* An object over the three keys; a key whose choice is Undefined is absent.
ObjectOf(p, s, c) ==
    JObj((IF p = Undefined THEN <<>> ELSE <<Member(KeyProblem, p)>>)
         \o (IF s = Undefined THEN <<>> ELSE <<Member(KeySolution, s)>>)
         \o (IF c = Undefined THEN <<>> ELSE <<Member(KeyCodeSnippet, c)>>))
ObjectsOver(vals) == {ObjectOf(p, s, c) : p \in vals, s \in vals, c \in vals}

FieldChoices ==
    {Undefined, JStr(<<>>), JStr(<<"a">>), JStr(<<DQ, RB>>), JNum(0), JNum(12),
     JBool(TRUE), JBool(FALSE), JNull, JArr(<<>>), JObj(<<>>)}
Prefixes == {<<>>, <<"H", "i", ":", " ">>, <<"[">>, <<LB>>, <<RB>>}
Suffixes == {<<>>, <<" ", "o", "k">>, <<"]">>, <<LB>>, <<RB>>}

Origin(kind, obj, pre, suf) == [kind |-> kind, obj |-> obj, pre |-> pre, suf |-> suf]
TextOf(o) ==
    IF o.kind = "short" THEN o.pre ELSE o.pre \o Serialize(o.obj) \o o.suf
WordTexts ==
    {<<"n", "u", "l", "l">>, <<"t", "r", "u", "e">>, <<"f", "a", "l", "s", "e">>,
     <<"S", "o", "r", "r", "y">>}
Origins ==
    {Origin("short", JNull, t, <<>>) : t \in ShortTexts \cup WordTexts}
    \cup {Origin("object", obj, pre, suf) :
            obj \in ObjectsOver(FieldChoices), pre \in Prefixes, suf \in Suffixes}

NoOutcome == [ok |-> FALSE, err |-> ErrorOf("")]

(***************************************************************************)
(* The component: catalog, state, adapters and handlers                    *)
(***************************************************************************)
\* AI_MODELS (lines 291-298)
AI_MODELS ==
    << [value |-> "gemini-1.5", provider |-> "google"],
       [value |-> "gemini-1.5-flash", provider |-> "google"],
       [value |-> "gpt-3.5-turbo", provider |-> "openai"],
       [value |-> "gpt-4", provider |-> "openai"],
       [value |-> "claude-3-opus", provider |-> "anthropic"],
       [value |-> "meta/llama-2-70b-chat", provider |-> "replicate"] >>

\* The values the model <select> offers (lines 639-659): "" and the catalog.
ModelOptions == {""} \cup {AI_MODELS[j].value : j \in 1..Len(AI_MODELS)}

\* AI_MODELS.find(m => m.value === model)?.provider (lines 509-511); "none"
\* stands for undefined.
ProviderOf(id) ==
    IF \E j \in 1..Len(AI_MODELS) : AI_MODELS[j].value = id
    THEN AI_MODELS[Min({j \in 1..Len(AI_MODELS) : AI_MODELS[j].value = id})].provider
    ELSE "none"

\* String.prototype.trim on a field value.
RECURSIVE TrimLeft(_)
TrimLeft(s) == IF s # <<>> /\ IsWs(Head(s)) THEN TrimLeft(Tail(s)) ELSE s
RECURSIVE TrimRight(_)
TrimRight(s) ==
    IF s # <<>> /\ IsWs(s[Len(s)]) THEN TrimRight(SubSeq(s, 1, Len(s) - 1)) ELSE s
Trim(s) == TrimRight(TrimLeft(s))

\* What the user can type into a field: nothing, blanks, or some text.
FieldValues == {<<>>, <<" ">>, <<"x">>}
\* useState('// Paste or type your code here...') (line 330)
InitialCode == <<"/", "/">>

Null == JNull

(***************************************************************************)
(* What a provider call can do.  A call throws an Error with a message (the *)
(* SDKs' errors and the browser's fetch error carry non-empty messages), or *)
(* a value that is no Error; or it returns, with a text or with one of the  *)
(* other shapes the response envelope allows.                               *)
(***************************************************************************)
Outcome(k, isError, message, text) ==
    [k |-> k, isError |-> isError, message |-> message, text |-> text]
NoProviderOutcome == Outcome("none", FALSE, "", <<>>)

ProviderMessages == {"401 Incorrect API key provided"}
Throws ==
    {Outcome("throw", TRUE, m, <<>>) : m \in ProviderMessages}
    \cup {Outcome("throw", FALSE, "", <<>>)}

AnswerChoices == {Undefined, JStr(<<>>), JStr(<<"a">>)}
AnswerObjects ==
    ObjectsOver(AnswerChoices)
    \cup {ObjectOf(JStr(<<"a">>), JStr(<<DQ, RB>>), JStr(<<"x">>)),
          ObjectOf(JNum(12), JStr(<<"a">>), JArr(<<>>))}
AnswerProse == {<<<<>>, <<>>>>, <<<<"H", "i", ":", " ">>, <<" ", "o", "k">>>>}
AnswerTexts ==
    {<<>>, <<"S", "o", "r", "r", "y">>, <<RB, " ", LB>>, <<LB, "a", RB>>,
     <<"1">>, <<"n", "u", "l", "l">>}
    \cup {pr[1] \o Serialize(obj) \o pr[2] : obj \in AnswerObjects, pr \in AnswerProse}
Texts == {Outcome("text", FALSE, "", t) : t \in AnswerTexts}

\* The outcomes of each adapter's provider call.
Outcomes(adapter) ==
    Throws \cup Texts \cup
    CASE adapter = "handleGeminiDebug" -> {}
      \* response.choices[0]?.message?.content is null or undefined (line 418)
      [] adapter = "handleOpenAIDebug" -> {Outcome("missing", FALSE, "", <<>>)}
      \* response.content is empty, or its first block has no text (line 454)
      [] adapter = "handleClaudeDebug" -> {Outcome("noBlock", FALSE, "", <<>>),
                                           Outcome("nonTextBlock", FALSE, "", <<>>)}
      \* replicate.run yields an array of fragments or another value (line 489)
      [] adapter = "handleLlamaDebug" -> {Outcome("fragments", FALSE, "", <<>>),
                                          Outcome("nonText", FALSE, "", <<>>)}

(***************************************************************************)
(* An adapter's continuation after its provider call settles: the setter   *)
(* calls it makes and the pipeline stages it runs.                         *)
(***************************************************************************)
Effect(setResult, res, setError, err, stages) ==
    [setResult |-> setResult, result |-> res, setError |-> setError, error |-> err,
     stages |-> stages]
SetsResult(res, stages) == Effect(TRUE, res, FALSE, "", stages)
SetsError(err, stages) == Effect(FALSE, Null, TRUE, err, stages)
SetsNothing(stages) == Effect(FALSE, Null, FALSE, "", stages)

\* err instanceof Error ? err.message : fallback
CatchMessage(err, fallback) == IF err.isError THEN err.message ELSE fallback

\* setResult(validated), or the adapter's catch when validateDebugResult threw
Validated(validated, fallback) ==
    IF ~validated.ok
    THEN SetsError(CatchMessage(validated.err, fallback), <<"extract", "validate">>)
    ELSE SetsResult(validated.v, <<"extract", "validate">>)

\* An adapter that stores what the extractor returned without validating it
ExtractedUnvalidated(parsedResult, fallback) ==
    IF ~parsedResult.ok
    THEN SetsError(CatchMessage(parsedResult.err, fallback), <<"extract">>)
    ELSE SetsResult(parsedResult.v, <<"extract">>)

\* validateDebugResult(parsedResult), or the adapter's catch when
\* extractJsonFromText threw
Extracted(parsedResult, fallback) ==
    IF ~parsedResult.ok
    THEN SetsError(CatchMessage(parsedResult.err, fallback), <<"extract">>)
    ELSE Validated(validateDebugResult(parsedResult.v), fallback)

\* const parsedResult = extractJsonFromText(text);
\* setResult(validateDebugResult(parsedResult));   inside the adapter's try
Pipeline(text, fallback) == Extracted(extractJsonFromText(text), fallback)

\* Mutant of handleGeminiDebug: the catch block drops the error.
handleGeminiDebugNoCatch(o) ==
    IF o.k = "throw" THEN SetsNothing(<<>>)
    ELSE Pipeline(o.text, "Failed to process Gemini response")

\* handleGeminiDebug (lines 371-379)
handleGeminiDebug(o) ==
    IF o.k = "throw"
    THEN SetsError(CatchMessage(o, "Failed to process Gemini response"), <<>>)
    ELSE Pipeline(o.text, "Failed to process Gemini response")

\* handleOpenAIDebug (lines 388-425)
handleOpenAIDebug(o) ==
    IF o.k = "throw"
    THEN SetsError(CatchMessage(o, "Failed to process OpenAI response"), <<>>)
    ELSE IF o.k = "text" /\ o.text # <<>>
    THEN Pipeline(o.text, "Failed to process OpenAI response")
    ELSE SetsNothing(<<>>)

\* handleClaudeDebug (lines 433-458)
handleClaudeDebug(o) ==
    IF o.k = "throw"
    THEN SetsError(CatchMessage(o, "Failed to process Claude response"), <<>>)
    ELSE IF o.k = "noBlock"
    THEN SetsError("Cannot read properties of undefined (reading 'text')", <<>>)
    ELSE IF o.k = "nonTextBlock"
    THEN SetsError(CatchMessage(extractJsonFromUndefined.err,
                                "Failed to process Claude response"), <<"extract">>)
    ELSE Pipeline(o.text, "Failed to process Claude response")

\* handleLlamaDebug (lines 466-495)
handleLlamaDebug(o) ==
    IF o.k = "throw"
    THEN SetsError(CatchMessage(o, "Failed to process Llama response"), <<>>)
    ELSE IF o.k = "text"
    THEN Pipeline(o.text, "Failed to process Llama response")
    ELSE SetsNothing(<<>>)

\* Mutant of AdapterFor: the default branch falls into the first adapter.
AdapterForNoDefault(provider) ==
    CASE provider = "openai" -> "handleOpenAIDebug"
      [] provider = "anthropic" -> "handleClaudeDebug"
      [] provider = "replicate" -> "handleLlamaDebug"
      [] OTHER -> "handleGeminiDebug"

\* Mutant of AdapterFor: two cases of the switch are swapped.
AdapterForSwapped(provider) ==
    CASE provider = "google" -> "handleGeminiDebug"
      [] provider = "openai" -> "handleClaudeDebug"
      [] provider = "anthropic" -> "handleOpenAIDebug"
      [] provider = "replicate" -> "handleLlamaDebug"
      [] OTHER -> "none"

\* The switch of handleDebug (lines 511-526): the adapter called for a provider
\* tag; "none" is the default branch.
AdapterFor(provider) ==
    CASE provider = "google" -> "handleGeminiDebug"
      [] provider = "openai" -> "handleOpenAIDebug"
      [] provider = "anthropic" -> "handleClaudeDebug"
      [] provider = "replicate" -> "handleLlamaDebug"
      [] OTHER -> "none"

\* The provider whose client an adapter constructs with apiKey and calls
\* (lines 355, 383, 429, 462).
ClientOf(adapter) ==
    CASE adapter = "handleGeminiDebug" -> "google"
      [] adapter = "handleOpenAIDebug" -> "openai"
      [] adapter = "handleClaudeDebug" -> "anthropic"
      [] adapter = "handleLlamaDebug" -> "replicate"

\* The part of an adapter that runs once its awaited provider call settles.
Continue(adapter, o) ==
    CASE adapter = "handleGeminiDebug" -> handleGeminiDebug(o)
      [] adapter = "handleOpenAIDebug" -> handleOpenAIDebug(o)
      [] adapter = "handleClaudeDebug" -> handleClaudeDebug(o)
      [] adapter = "handleLlamaDebug" -> handleLlamaDebug(o)

\* `new Anthropic({ apiKey })` (line 429) is outside the adapter's try and is
\* given no dangerouslyAllowBrowser: depending on the SDK version it throws in
\* a browser.  No other constructor call can throw on a non-empty key.
ConstructorMayThrow(adapter) == adapter = "handleClaudeDebug"
ConstructorError == ErrorOf("It looks like you're running in a browser-like environment.")

(***************************************************************************)
(* State and actions                                                       *)
(***************************************************************************)
\* The record of a finished dispatch: the model it was started for, the adapter
\* handleDebug called, the providers that were sent a call, the stages it ran
\* and what its provider call did.  It is kept for one step.
Trace(m, adapter, invoked, called, stages, o) ==
    [model |-> m, adapter |-> adapter, invoked |-> invoked, called |-> called,
     stages |-> stages, outcome |-> o]
NoTrace == Trace("", "none", <<>>, <<>>, <<>>, NoProviderOutcome)

PureIdle ==
    /\ porigin = Origin("short", JNull, <<>>, <<>>)
    /\ ptext = <<>>
    /\ pstage = "unused"
    /\ pextract = NoOutcome
    /\ pvalid = NoOutcome

Init ==
    /\ code = InitialCode
    /\ problem = <<>>
    /\ apiKey = <<>>
    /\ model = ""
    /\ loading = FALSE
    /\ result = Null
    /\ error = ""
    /\ inflight = <<>>
    /\ trace = NoTrace
    /\ sinceClear = FALSE
    /\ PureIdle

\* onChange of the editor, the textarea, the key input and the select
\* (lines 688, 699, 669, 636)
SetCode(v) ==
    /\ code' = v
    /\ trace' = NoTrace
    /\ UNCHANGED <<problem, apiKey, model, loading, result, error, inflight>>
SetProblem(v) ==
    /\ problem' = v
    /\ trace' = NoTrace
    /\ UNCHANGED <<code, apiKey, model, loading, result, error, inflight>>
SetApiKey(v) ==
    /\ apiKey' = v
    /\ trace' = NoTrace
    /\ UNCHANGED <<code, problem, model, loading, result, error, inflight>>
SetModel(v) ==
    /\ model' = v
    /\ trace' = NoTrace
    /\ UNCHANGED <<code, problem, apiKey, loading, result, error, inflight>>

\* handleClear (lines 346-352)
handleClear ==
    /\ code' = <<>>
    /\ problem' = <<>>
    /\ apiKey' = <<>>
    /\ result' = Null
    /\ error' = ""
    /\ trace' = NoTrace
    /\ UNCHANGED <<model, loading, inflight>>

\* Mutant of DebugEnabled: the button is never disabled.
DebugAlwaysEnabled == TRUE

\* The Debug button is disabled while loading (line 708).
DebugEnabled == ~loading

\* `!code.trim() || !problem.trim() || !apiKey.trim()` (line 499)
FieldsMissing == Trim(code) = <<>> \/ Trim(problem) = <<>> \/ Trim(apiKey) = <<>>

\* handleDebug (lines 498-532), from the click up to its first await or, when
\* nothing is awaited, to its end.
handleDebug ==
    /\ DebugEnabled
    /\ IF FieldsMissing
       THEN /\ error' = "Please fill in all fields"
            /\ trace' = NoTrace
            /\ UNCHANGED <<code, problem, apiKey, model, loading, result, inflight>>
       ELSE LET adapter == AdapterFor(ProviderOf(model)) IN
            IF adapter = "none"
            THEN \* default branch: setError, then finally setLoading(false)
                 /\ loading' = FALSE
                 /\ result' = Null
                 /\ error' = "Invalid model selected"
                 /\ trace' = Trace(model, adapter, <<>>, <<>>, <<"lookup", "Failed">>,
                                   NoProviderOutcome)
                 /\ UNCHANGED <<code, problem, apiKey, model, inflight>>
            ELSE \/ \* the adapter issues its provider call and awaits it
                    /\ loading' = TRUE
                    /\ error' = ""
                    /\ result' = Null
                    /\ inflight' = Append(inflight,
                                      [model |-> model, adapter |-> adapter,
                                       invoked |-> <<adapter>>,
                                       called |-> <<ClientOf(adapter)>>,
                                       stages |-> <<"lookup", "build", "call">>])
                    /\ trace' = NoTrace
                    /\ UNCHANGED <<code, problem, apiKey, model>>
                 \/ \* the client constructor throws into handleDebug's catch
                    /\ ConstructorMayThrow(adapter)
                    /\ loading' = FALSE
                    /\ result' = Null
                    /\ error' = CatchMessage(ConstructorError, "An error occurred")
                    /\ trace' = Trace(model, adapter, <<adapter>>, <<>>, <<"lookup", "Failed">>,
                                      NoProviderOutcome)
                    /\ UNCHANGED <<code, problem, apiKey, model, inflight>>

RemoveAt(s, i) == SubSeq(s, 1, i - 1) \o SubSeq(s, i + 1, Len(s))

Terminal(eff) ==
    IF eff.setResult THEN <<"Succeeded">> ELSE IF eff.setError THEN <<"Failed">> ELSE <<>>

\* A handleDebug that resets loading at the end of its try block and not in a
\* finally: a dispatch that stored an error leaves loading as it was.
SettleNoFinally(i, d, o, eff) ==
    /\ result' = IF eff.setResult THEN eff.result ELSE result
    /\ error' = IF eff.setError THEN eff.error ELSE error
    /\ loading' = IF eff.setError THEN loading ELSE FALSE
    /\ inflight' = RemoveAt(inflight, i)
    /\ trace' = Trace(d.model, d.adapter, d.invoked, d.called,
                      d.stages \o eff.stages \o Terminal(eff), o)
    /\ UNCHANGED <<code, problem, apiKey, model>>

\* The provider call of the i-th dispatch in flight, d, settles with outcome o:
\* the rest of the adapter runs (its setter calls are eff), then handleDebug's
\* finally (line 530).
Settle(i, d, o, eff) ==
    /\ result' = IF eff.setResult THEN eff.result ELSE result
    /\ error' = IF eff.setError THEN eff.error ELSE error
    /\ loading' = FALSE
    /\ inflight' = RemoveAt(inflight, i)
    /\ trace' = Trace(d.model, d.adapter, d.invoked, d.called,
                      d.stages \o eff.stages \o Terminal(eff), o)
    /\ UNCHANGED <<code, problem, apiKey, model>>
ProviderResponds(i, o) == Settle(i, inflight[i], o, Continue(inflight[i].adapter, o))

\* sinceClear is set by a Clear click and reset by a Debug click; edits and
\* provider responses leave it alone
NoClick == UNCHANGED <<sinceClear, pureVars>>
DebugClicked == sinceClear' = FALSE /\ UNCHANGED pureVars
ClearClicked == sinceClear' = TRUE /\ UNCHANGED pureVars

Next ==
    \/ \E v \in FieldValues : SetCode(v) /\ NoClick
    \/ \E v \in FieldValues : SetProblem(v) /\ NoClick
    \/ \E v \in FieldValues : SetApiKey(v) /\ NoClick
    \/ \E v \in ModelOptions : SetModel(v) /\ NoClick
    \/ handleDebug /\ DebugClicked
    \/ handleClear /\ ClearClicked
    \/ \E i \in 1..Len(inflight) : \E o \in Outcomes(inflight[i].adapter) :
          ProviderResponds(i, o) /\ NoClick

Spec == Init /\ [][Next]_vars

(***************************************************************************)
(* The function-level specification: extractJsonFromText and               *)
(* validateDebugResult applied to each bounded input text.                 *)
(***************************************************************************)
PureInit ==
    /\ porigin \in Origins
    /\ ptext = TextOf(porigin)
    /\ pstage = "input"
    /\ pextract = NoOutcome
    /\ pvalid = NoOutcome
    /\ code = InitialCode /\ problem = <<>> /\ apiKey = <<>> /\ model = ""
    /\ loading = FALSE /\ result = Null /\ error = "" /\ inflight = <<>>
    /\ trace = NoTrace /\ sinceClear = FALSE

PureExtract ==
    /\ pstage = "input"
    /\ pextract' = extractJsonFromText(ptext)
    /\ pstage' = "extracted"
    /\ UNCHANGED <<porigin, ptext, pvalid>>
    /\ UNCHANGED compVars

PureValidate ==
    /\ pstage = "extracted"
    /\ pextract.ok
    /\ pvalid' = validateDebugResult(pextract.v)
    /\ pstage' = "validated"
    /\ UNCHANGED <<porigin, ptext, pextract>>
    /\ UNCHANGED compVars

PureNext == PureExtract \/ PureValidate

PureSpec == PureInit /\ [][PureNext]_vars

(***************************************************************************)
(* Properties                                                              *)
(***************************************************************************)
Last(s) == s[Len(s)]
InSeq(x, s) == \E j \in 1..Len(s) : s[j] = x
Catalog == {AI_MODELS[j].value : j \in 1..Len(AI_MODELS)}

\* A dispatch finished in the last step.
Finished == trace.stages # <<>>
\* ... and its provider call had returned or thrown.
Settled == trace.outcome.k # "none"

Succeeded == result # Null /\ error = ""
Failed == result = Null /\ error # ""

RequiredKeys == {KeyProblem, KeySolution, KeyCodeSnippet}
HasKey(v, k) == v.t = "obj" /\ \E j \in 1..Len(v.o) : v.o[j].k = k
HasRequiredKeys(v) == \A k \in RequiredKeys : HasKey(v, k)
IsNonEmptyString(v) == v.t = "str" /\ v.s # <<>>
HasRequiredStrings(v) ==
    HasRequiredKeys(v) /\ \A k \in RequiredKeys : IsNonEmptyString(GetProp(v, k))

\* 0 when c does not occur in s
FirstIndex(s, c) ==
    IF \E j \in 1..Len(s) : s[j] = c THEN Min({j \in 1..Len(s) : s[j] = c}) ELSE 0
LastIndex(s, c) ==
    IF \E j \in 1..Len(s) : s[j] = c THEN Max({j \in 1..Len(s) : s[j] = c}) ELSE 0
BraceFree(s) == \A j \in 1..Len(s) : s[j] \notin {LB, RB}

\* C1 (as claimed): every dispatch whose provider call returned or threw ends
\* with a result stored and no error, or with a non-empty error and no result.
C1_SettledDispatchSucceededOrFailed == Settled => (Succeeded \/ Failed)

\* C2: a dispatch for a model identifier outside the catalog ends with the error
\* 'Invalid model selected', no result, no adapter invoked and no provider
\* called; and no dispatch in flight is one for such an identifier.
C2_UnknownModelFailsBeforeAnyCall ==
    /\ \A j \in 1..Len(inflight) : inflight[j].model \in Catalog
    /\ (Finished /\ trace.model \notin Catalog) =>
          /\ error = "Invalid model selected"
          /\ result = Null
          /\ ~loading
          /\ trace.invoked = <<>>
          /\ trace.called = <<>>
          /\ Last(trace.stages) = "Failed"
C2_Witness ==
    Finished /\ trace.model = "" /\ error = "Invalid model selected"

\* C3: when the provider call throws, the dispatch ends with a non-empty error
\* and no result, the extractor and the validator did not run, and loading is
\* reset (the exception was caught).
C3_ProviderThrowFails ==
    (Finished /\ trace.outcome.k = "throw") =>
          /\ Failed
          /\ ~InSeq("extract", trace.stages)
          /\ ~InSeq("validate", trace.stages)
          /\ Last(trace.stages) = "Failed"
          /\ ~loading
C3_Witness ==
    Finished /\ trace.outcome.k = "throw" /\ trace.adapter = "handleGeminiDebug" /\ Failed

\* C4 (as claimed): validateDebugResult accepts a value exactly when it holds
\* non-empty strings at problem, solution and codeSnippet.
C4_ValidatorAcceptsOnlyRequiredStrings ==
    pstage = "validated" => (pvalid.ok <=> HasRequiredStrings(pextract.v))

\* C5: when the whole text is not JSON, extractJsonFromText returns the value of
\* the text from the first '{' to the last '}' when that parses, and fails
\* otherwise; so an object with the three keys between brace-free prose is
\* extracted as itself.
C5_SubstringRecovery ==
    (pstage # "input" /\ ~JsonParse(ptext).ok) =>
        LET f == FirstIndex(ptext, LB)
            l == LastIndex(ptext, RB)
        IN /\ IF f > 0 /\ l > f /\ JsonParse(SubSeq(ptext, f, l)).ok
              THEN pextract = Return(JsonParse(SubSeq(ptext, f, l)).v)
              ELSE ~pextract.ok
           /\ (/\ porigin.kind = "object"
               /\ HasRequiredKeys(porigin.obj)
               /\ BraceFree(porigin.pre)
               /\ BraceFree(porigin.suf)) => pextract = Return(porigin.obj)
C5_Witness ==
    /\ pstage = "extracted"
    /\ porigin.kind = "object"
    /\ HasRequiredKeys(porigin.obj)
    /\ porigin.pre = <<"H", "i", ":", " ">>
    /\ porigin.suf = <<" ", "o", "k">>
    /\ GetProp(porigin.obj, KeySolution) = JStr(<<DQ, RB>>)
    /\ pextract = Return(porigin.obj)

\* The serialisation of each answer object.
SerializedAnswers == [obj \in AnswerObjects |-> Serialize(obj)]

\* C6: when the provider's text is the serialisation of an object with the three
\* keys, the whole text parses to that object and extractJsonFromText returns
\* it; when its three values are non-empty strings the dispatch ends Succeeded
\* with exactly those three values as the result.
C6_RoundTrip ==
    (Finished /\ trace.outcome.k = "text") =>
        \A obj \in AnswerObjects :
            (HasRequiredKeys(obj) /\ SerializedAnswers[obj] = trace.outcome.text) =>
                /\ JsonParse(trace.outcome.text) = Return(obj)
                /\ extractJsonFromText(trace.outcome.text) = Return(obj)
                /\ HasRequiredStrings(obj) =>
                      /\ Succeeded
                      /\ Last(trace.stages) = "Succeeded"
                      /\ result = [problem |-> GetProp(obj, KeyProblem),
                                   solution |-> GetProp(obj, KeySolution),
                                   codeSnippet |-> GetProp(obj, KeyCodeSnippet)]
C6_Witness ==
    /\ Finished
    /\ trace.outcome.text =
          Serialize(ObjectOf(JStr(<<"a">>), JStr(<<DQ, RB>>), JStr(<<"x">>)))
    /\ result = [problem |-> JStr(<<"a">>), solution |-> JStr(<<DQ, RB>>),
                 codeSnippet |-> JStr(<<"x">>)]

\* C7 (as claimed): when no JSON can be recovered from the provider's text, the
\* extractor runs and fails, the dispatch ends Failed with the extractor's
\* error, and the validator does not run.
C7_NoJsonFoundFails ==
    (/\ Finished
     /\ trace.outcome.k = "text"
     /\ ~extractJsonFromText(trace.outcome.text).ok) =>
          /\ Failed
          /\ error \in {"No JSON found in response", "Could not parse JSON from response"}
          /\ InSeq("extract", trace.stages)
          /\ ~InSeq("validate", trace.stages)

\* C8: a dispatch invokes at most one adapter and calls at most one provider,
\* and the provider called, the only one given the credential, is the one of
\* the model the dispatch was started for.
C8_OneAdapterOneProvider ==
    /\ \A j \in 1..Len(inflight) :
          /\ Len(inflight[j].invoked) = 1
          /\ inflight[j].called = <<ProviderOf(inflight[j].model)>>
    /\ Finished =>
          /\ Len(trace.invoked) <= 1
          /\ Len(trace.called) <= 1
          /\ \A j \in 1..Len(trace.invoked) :
                ClientOf(trace.invoked[j]) = ProviderOf(trace.model)
          /\ \A j \in 1..Len(trace.called) : trace.called[j] = ProviderOf(trace.model)
C8_Witness ==
    /\ Finished
    /\ trace.model = "gpt-4"
    /\ trace.invoked = <<"handleOpenAIDebug">>
    /\ trace.called = <<"openai">>
    /\ Failed

\* C9 (as claimed): when the hosted-model run returns something that is not one
\* text value, the dispatch ends Failed: an error is stored and no result.
C9_UnsupportedOutputShapeFails ==
    (/\ Finished
     /\ trace.adapter = "handleLlamaDebug"
     /\ trace.outcome.k \in {"fragments", "nonText"}) => Failed

\* C10: at most one dispatch is in flight, and while one is, loading is set, so
\* the Debug button is disabled and no second dispatch can start.
C10_SingleFlight ==
    /\ Len(inflight) <= 1
    /\ inflight # <<>> => loading
C10_Witness ==
    Len(inflight) = 1 /\ ~FieldsMissing /\ loading

\* The stages of a dispatch in the order the code runs them, and the place of
\* each; the two terminal states share the last place.
StageOrder == <<"lookup", "build", "call", "extract", "validate">>
Rank(stage) ==
    IF stage \in {"Succeeded", "Failed"} THEN Len(StageOrder) + 1
    ELSE CHOOSE k \in 1..Len(StageOrder) : StageOrder[k] = stage
Forward(stages) ==
    /\ stages[1] = "lookup"
    /\ \A j \in 1..(Len(stages) - 1) : Rank(stages[j]) < Rank(stages[j + 1])
StoredBy(parsedResult) ==
    /\ parsedResult.ok
    /\ validateDebugResult(parsedResult.v).ok
    /\ result = validateDebugResult(parsedResult.v).v

\* C11: the stages of a dispatch run in the order lookup, build, call, extract,
\* validate, terminal state: each stage is later in that order than the one
\* before it, so none runs twice and none is gone back to; and a result held
\* when a dispatch finishes was stored by that dispatch, after all five stages,
\* and is what the validator returned for what the extractor returned for the
\* text of that dispatch's own provider answer.
C11_StagesInOrder ==
    /\ \A j \in 1..Len(inflight) : inflight[j].stages = <<"lookup", "build", "call">>
    /\ Finished => Forward(trace.stages)
    /\ (Finished /\ result # Null) =>
          /\ trace.stages = StageOrder \o <<"Succeeded">>
          /\ trace.outcome.k = "text"
          /\ StoredBy(extractJsonFromText(trace.outcome.text))
C11_Witness ==
    /\ Finished
    /\ result # Null
    /\ trace.stages = StageOrder \o <<"Succeeded">>

\* C12 (as claimed): a result and an error message are never held together:
\* in every reachable state, result is null or error is empty.
C12_ResultErrorExclusive == ~(result # Null /\ error # "")

\* C13: loading is set exactly while a dispatch awaits its provider call; when
\* the call has returned or thrown, whatever the adapter then did (stored a
\* result, stored an error of the provider, the extractor or the validator, or
\* stored nothing), loading is false again, as it is after a dispatch for an
\* unknown model; and after a Debug click rejected for an empty field loading
\* is false (the click is only possible while it is false).
C13_LoadingTracksDispatch ==
    /\ loading <=> inflight # <<>>
    /\ (Finished \/ Settled) => ~loading
    /\ error = "Please fill in all fields" => ~loading
C13_Witness ==
    /\ Finished
    /\ trace.outcome.k = "text"
    /\ Last(trace.stages) = "Failed"
    /\ InSeq("validate", trace.stages)
    /\ ~loading

Cleared == result = Null /\ error = ""

\* C14 (as claimed): once handleClear has run, result is null and error is
\* empty until the next Debug click, whatever happens in between, the arrival
\* of the provider response of a dispatch in flight included.
C14_ClearHoldsUntilDebug == sinceClear => Cleared

====
